---- MODULE Spec2Model ----
(***************************************************************************)
(* InChI-Web-Demo: the C adapter (inchi_web.c) compiled to WebAssembly and *)
(* the JavaScript glue (pages/index.js) that calls it.                     *)
(*                                                                         *)
(* The JavaScript side is a single-threaded event loop: an event handler   *)
(* or a promise continuation runs to its next await without interruption   *)
(* (variable running), continuations of settled promises wait in a FIFO    *)
(* microtask queue (variable queue), and a new event is taken only when    *)
(* that queue is empty.  The synchronous stretch between two awaits is cut *)
(* into steps (pc) so that the order of allocation, copy and release is    *)
(* visible in the states.                                                  *)
(***************************************************************************)
EXTENDS Integers, Sequences, FiniteSets, TLC

\* ------------------------------------------------------------------ bounds
\* Number of update requests (updateTab1 / updateTab2 / drop) ever issued.
MaxReq == 2

\* Length of the field strings handed to the serializers, in characters.
MaxFieldLen == 2

Req == 1..MaxReq

\* --------------------------------------------------- native return codes
\* inchi_api.h, RetValMOL2INCHI (used in the switch of inchi_from_molfile)
mol2inchi_Ret_OKAY == 0
mol2inchi_Ret_WARNING == 1
mol2inchi_Ret_EOF == -1
mol2inchi_Ret_ERROR == 2
mol2inchi_Ret_ERROR_get == 4
mol2inchi_Ret_ERROR_comp == 5

\* inchi_api.h, return codes of GetINCHIKeyFromINCHI
INCHIKEY_OK == 0
INCHIKEY_UNKNOWN_ERROR == 1
INCHIKEY_EMPTY_INPUT == 2
INCHIKEY_INVALID_INCHI_PREFIX == 3
INCHIKEY_NOT_ENOUGH_MEMORY == 4
INCHIKEY_INVALID_INCHI == 20
INCHIKEY_INVALID_STD_INCHI == 21

\* What MakeINCHIFromMolfileText may return: the six named codes and
\* integers that are none of them.
Mol2InchiKnown ==
  { mol2inchi_Ret_OKAY, mol2inchi_Ret_WARNING, mol2inchi_Ret_EOF,
    mol2inchi_Ret_ERROR, mol2inchi_Ret_ERROR_get, mol2inchi_Ret_ERROR_comp }

Mol2InchiCodes == Mol2InchiKnown \cup {-2, 7}

\* What GetINCHIKeyFromINCHI may return: the seven named codes and integers
\* that are none of them.
InchiKeyKnown ==
  { INCHIKEY_OK, INCHIKEY_UNKNOWN_ERROR, INCHIKEY_EMPTY_INPUT,
    INCHIKEY_INVALID_INCHI_PREFIX, INCHIKEY_NOT_ENOUGH_MEMORY,
    INCHIKEY_INVALID_INCHI, INCHIKEY_INVALID_STD_INCHI }

InchiKeyCodes == InchiKeyKnown \cup {-1, 5}

\* ------------------------------------------------------------- C strings
\* A char* is NULL or points to a string.
NULL == << >>

CStr(s) == << s >>

\* Emscripten's UTF8ToString: the string at ptr, "" for a NULL pointer.
UTF8ToString(p) == IF p = NULL THEN "" ELSE p[1]

\* The strings the engine writes into inchi_Output.
SzInChI == "InChI=1S/CH4/h1H4"
SzAuxInfo == "AuxInfo=1/0/N:1/rA:1C/rB:/rC:;"
SzMessage == "Accepted unusual valence(s)"
SzLog == "Structure: 1"
SzINCHIKey == "VNWKTOKETHGBQD-UHFFFAOYSA-N"

\* inchi_Output after memset(output, 0, ...): every field NULL.
ZeroedOutput ==
  [ szInChI |-> NULL, szAuxInfo |-> NULL, szMessage |-> NULL, szLog |-> NULL ]

\* inchi_Output with every string field set by the engine.
FilledOutput ==
  [ szInChI |-> CStr(SzInChI), szAuxInfo |-> CStr(SzAuxInfo),
    szMessage |-> CStr(SzMessage), szLog |-> CStr(SzLog) ]

\* The engine is opaque: it leaves the zeroed structure or fills it,
\* whatever code it returns.
NativeOutputs == { ZeroedOutput, FilledOutput }

\* The key buffer szINCHIKey[28] after the call: the key on INCHIKEY_OK,
\* otherwise what the stack held (the buffer is not initialized).
KeyBuffers(ret) ==
  IF ret = INCHIKEY_OK THEN { CStr(SzINCHIKey) } ELSE { CStr("?stack?") }

\* ---------------------------------------------------- Result Serializer
\* EM_JS to_json_inchi: the payload JSON.stringify builds from the code and
\* the four strings read with UTF8ToString.
to_json_inchi(return_code, inchi, auxinfo, message, log) ==
  [ return_code |-> return_code,
    inchi |-> UTF8ToString(inchi),
    auxinfo |-> UTF8ToString(auxinfo),
    message |-> UTF8ToString(message),
    log |-> UTF8ToString(log) ]

\* EM_JS to_json_inchikey.
to_json_inchikey(return_code, inchikey, message) ==
  [ return_code |-> return_code,
    inchikey |-> UTF8ToString(inchikey),
    message |-> UTF8ToString(message) ]

\* --------------------------------------------------------- payload text
\* The serializer and the caller at the level of characters.  A JavaScript
\* string is the sequence of its code points, the heap a sequence of bytes,
\* a char* NULL or << the bytes up to and including the terminating 0 >>.

\* The property names of the two payloads.
Key_return_code == << 114, 101, 116, 117, 114, 110, 95, 99, 111, 100, 101 >>
Key_inchi == << 105, 110, 99, 104, 105 >>
Key_auxinfo == << 97, 117, 120, 105, 110, 102, 111 >>
Key_message == << 109, 101, 115, 115, 97, 103, 101 >>
Key_log == << 108, 111, 103 >>
Key_inchikey == << 105, 110, 99, 104, 105, 107, 101, 121 >>

\* The UTF-8 encoding of a code point below 0x800.
UTF8Bytes(cp) ==
  IF cp < 128 THEN << cp >> ELSE << 192 + (cp \div 64), 128 + (cp % 64) >>

\* Module.lengthBytesUTF8(str)
RECURSIVE lengthBytesUTF8(_)
lengthBytesUTF8(str) ==
  IF str = << >> THEN 0
  ELSE Len(UTF8Bytes(Head(str))) + lengthBytesUTF8(Tail(str))

\* The encoding of the longest prefix of str that fits into room bytes.
RECURSIVE EncodeUpTo(_, _)
EncodeUpTo(str, room) ==
  IF str = << >> THEN << >>
  ELSE LET b == UTF8Bytes(Head(str)) IN
       IF Len(b) > room THEN << >>
       ELSE b \o EncodeUpTo(Tail(str), room - Len(b))

\* Module.stringToUTF8(str, outPtr, maxBytesToWrite): the bytes written at
\* outPtr, never more than maxBytesToWrite, the last of them the terminator.
stringToUTF8(str, maxBytesToWrite) ==
  IF maxBytesToWrite <= 0 THEN << >>
  ELSE Append(EncodeUpTo(str, maxBytesToWrite - 1), 0)

\* UTF8ArrayToString(heap, idx): the string decoded from the bytes at idx up
\* to the first 0 (U+FFFD for a byte sequence that is no encoding).
RECURSIVE UTF8ArrayToString(_, _)
UTF8ArrayToString(heap, idx) ==
  IF idx > Len(heap) THEN << >>
  ELSE IF heap[idx] = 0 THEN << >>
  ELSE IF heap[idx] < 128 THEN << heap[idx] >> \o UTF8ArrayToString(heap, idx + 1)
  ELSE IF heap[idx] \div 32 = 6 /\ idx < Len(heap)
    THEN << (heap[idx] % 32) * 64 + (heap[idx + 1] % 64) >>
         \o UTF8ArrayToString(heap, idx + 2)
  ELSE << 65533 >> \o UTF8ArrayToString(heap, idx + 1)

\* Module.UTF8ToString(ptr) on bytes: "" for NULL.
UTF8ToStringAt(ptr) == IF ptr = NULL THEN << >> ELSE UTF8ArrayToString(ptr[1], 1)

\* The digit of a hexadecimal escape.
HexDigit(d) == IF d < 10 THEN 48 + d ELSE 87 + d

\* \uXXXX
UnicodeEscape(cp) ==
  << 92, 117, HexDigit(cp \div 4096), HexDigit((cp \div 256) % 16),
     HexDigit((cp \div 16) % 16), HexDigit(cp % 16) >>

\* The two-character escapes of JSON.stringify: \b \t \n \f \r \" \\
JSONEscapes ==
  (8 :> 98) @@ (9 :> 116) @@ (10 :> 110) @@ (12 :> 102) @@ (13 :> 114)
  @@ (34 :> 34) @@ (92 :> 92)

\* Faulty variant: the `(too) simple C version of to_json`, which prints the
\* strings with "%s", without escaping.
QuoteJSONChar_asprintf(cp) == << cp >>

\* JSON.stringify of one character of a string (QuoteJSONString).
QuoteJSONChar(cp) ==
  IF cp \in DOMAIN JSONEscapes THEN << 92, JSONEscapes[cp] >>
  ELSE IF cp < 32 THEN UnicodeEscape(cp)
  ELSE << cp >>

RECURSIVE QuoteJSONChars(_)
QuoteJSONChars(str) ==
  IF str = << >> THEN << >>
  ELSE QuoteJSONChar(Head(str)) \o QuoteJSONChars(Tail(str))

QuoteJSONString(str) == << 34 >> \o QuoteJSONChars(str) \o << 34 >>

\* Number::toString of a natural number.
RECURSIVE NumberDigits(_)
NumberDigits(n) ==
  IF n < 10 THEN << 48 + n >> ELSE Append(NumberDigits(n \div 10), 48 + (n % 10))

\* JSON.stringify of an integer.
NumberToString(n) == IF n < 0 THEN << 45 >> \o NumberDigits(0 - n) ELSE NumberDigits(n)

\* A JavaScript value of a payload: [num |-> an integer] or [str |-> a string].
SerializeJSONProperty(v) ==
  IF "num" \in DOMAIN v THEN NumberToString(v.num) ELSE QuoteJSONString(v.str)

\* The members of an object literal, props being its << name, value >> pairs.
RECURSIVE SerializeMembers(_)
SerializeMembers(props) ==
  IF props = << >> THEN << >>
  ELSE QuoteJSONString(props[1][1]) \o << 58 >> \o SerializeJSONProperty(props[1][2])
       \o (IF Len(props) = 1 THEN << >> ELSE << 44 >> \o SerializeMembers(Tail(props)))

\* JSON.stringify({...})
JSON_stringify(props) == << 123 >> \o SerializeMembers(props) \o << 125 >>

\* EM_JS to_json_inchi on bytes: the payload text of JSON.stringify, written
\* into a buffer of lengthBytesUTF8(json) + 1 bytes; jsonPtr is returned.
to_json_inchi_bytes(return_code, inchi, auxinfo, message, log) ==
  LET json == JSON_stringify(<< << Key_return_code, [ num |-> return_code ] >>,
                                << Key_inchi, [ str |-> UTF8ToStringAt(inchi) ] >>,
                                << Key_auxinfo, [ str |-> UTF8ToStringAt(auxinfo) ] >>,
                                << Key_message, [ str |-> UTF8ToStringAt(message) ] >>,
                                << Key_log, [ str |-> UTF8ToStringAt(log) ] >> >>)
      byteCount == lengthBytesUTF8(json) + 1
  IN << stringToUTF8(json, byteCount) >>

\* EM_JS to_json_inchikey on bytes.
to_json_inchikey_bytes(return_code, inchikey, message) ==
  LET json == JSON_stringify(<< << Key_return_code, [ num |-> return_code ] >>,
                                << Key_inchikey, [ str |-> UTF8ToStringAt(inchikey) ] >>,
                                << Key_message, [ str |-> UTF8ToStringAt(message) ] >> >>)
      byteCount == lengthBytesUTF8(json) + 1
  IN << stringToUTF8(json, byteCount) >>

\* JSON.parse threw a SyntaxError.
ParseFail == [ ok |-> FALSE, val |-> << >>, next |-> 0 ]

\* The value of a hexadecimal digit, -1 for another character.
HexValue(ch) ==
  IF ch \in 48..57 THEN ch - 48
  ELSE IF ch \in 97..102 THEN ch - 87
  ELSE IF ch \in 65..70 THEN ch - 55
  ELSE -1

\* The character after a backslash and what it stands for: \" \\ \/ \b \f \n \r \t
JSONUnescapes ==
  (34 :> 34) @@ (92 :> 92) @@ (47 :> 47) @@ (98 :> 8) @@ (102 :> 12)
  @@ (110 :> 10) @@ (114 :> 13) @@ (116 :> 9)

\* JSON.parse inside a string literal of s, at i, acc being the characters
\* read so far: up to the closing quote.
RECURSIVE ParseStringChars(_, _, _)
ParseStringChars(s, i, acc) ==
  IF i > Len(s) THEN ParseFail
  ELSE IF s[i] = 34 THEN [ ok |-> TRUE, val |-> acc, next |-> i + 1 ]
  ELSE IF s[i] = 92 THEN
    IF i + 1 > Len(s) THEN ParseFail
    ELSE IF s[i + 1] = 117 THEN
      IF i + 5 > Len(s) THEN ParseFail
      ELSE LET h == [ k \in 1..4 |-> HexValue(s[i + 1 + k]) ] IN
           IF \E k \in 1..4 : h[k] < 0 THEN ParseFail
           ELSE ParseStringChars(s, i + 6,
                  Append(acc, h[1] * 4096 + h[2] * 256 + h[3] * 16 + h[4]))
    ELSE IF s[i + 1] \in DOMAIN JSONUnescapes
      THEN ParseStringChars(s, i + 2, Append(acc, JSONUnescapes[s[i + 1]]))
    ELSE ParseFail
  ELSE IF s[i] < 32 THEN ParseFail
  ELSE ParseStringChars(s, i + 1, Append(acc, s[i]))

\* The digits of s from i on, n being the value read so far.
RECURSIVE ParseDigits(_, _, _)
ParseDigits(s, i, n) ==
  IF i > Len(s) THEN [ val |-> n, next |-> i ]
  ELSE IF s[i] \in 48..57 THEN ParseDigits(s, i + 1, 10 * n + (s[i] - 48))
  ELSE [ val |-> n, next |-> i ]

\* A natural number at i: 0, or a digit other than 0 and further digits.
ParseNatural(s, i) ==
  IF i > Len(s) THEN ParseFail
  ELSE IF s[i] = 48 THEN [ ok |-> TRUE, val |-> 0, next |-> i + 1 ]
  ELSE IF s[i] \in 49..57
    THEN LET d == ParseDigits(s, i, 0) IN [ ok |-> TRUE, val |-> d.val, next |-> d.next ]
  ELSE ParseFail

\* A value at i: a string or an integer (the payloads hold nothing else).
ParseValue(s, i) ==
  IF i > Len(s) THEN ParseFail
  ELSE IF s[i] = 34
    THEN LET str == ParseStringChars(s, i + 1, << >>) IN
         IF str.ok THEN [ ok |-> TRUE, val |-> [ str |-> str.val ], next |-> str.next ]
         ELSE ParseFail
  ELSE IF s[i] = 45
    THEN LET n == ParseNatural(s, i + 1) IN
         IF n.ok THEN [ ok |-> TRUE, val |-> [ num |-> 0 - n.val ], next |-> n.next ]
         ELSE ParseFail
  ELSE LET n == ParseNatural(s, i) IN
       IF n.ok THEN [ ok |-> TRUE, val |-> [ num |-> n.val ], next |-> n.next ]
       ELSE ParseFail

\* The members of an object from i on, obj being the properties read so
\* far (a later property of the same name replaces an earlier one).
RECURSIVE ParseMembers(_, _, _)
ParseMembers(s, i, obj) ==
  IF i > Len(s) THEN ParseFail
  ELSE IF s[i] # 34 THEN ParseFail
  ELSE LET k == ParseStringChars(s, i + 1, << >>) IN
    IF ~k.ok THEN ParseFail
    ELSE IF k.next > Len(s) THEN ParseFail
    ELSE IF s[k.next] # 58 THEN ParseFail
    ELSE LET v == ParseValue(s, k.next + 1) IN
      IF ~v.ok THEN ParseFail
      ELSE IF v.next > Len(s) THEN ParseFail
      ELSE LET o == (k.val :> v.val) @@ obj IN
        IF s[v.next] = 44 THEN ParseMembers(s, v.next + 1, o)
        ELSE IF s[v.next] = 125 THEN [ ok |-> TRUE, val |-> o, next |-> v.next + 1 ]
        ELSE ParseFail

\* JSON.parse(text) of a text that is to be an object: the object as a
\* function from property names to values, or ParseFail.
JSON_parse(text) ==
  IF Len(text) < 2 THEN ParseFail
  ELSE IF text[1] # 123 THEN ParseFail
  ELSE LET m == IF text[2] = 125
                  THEN [ ok |-> TRUE, val |-> [ k \in {} |-> 0 ], next |-> 3 ]
                  ELSE ParseMembers(text, 2, [ k \in {} |-> 0 ]) IN
       IF m.ok /\ m.next = Len(text) + 1 THEN m ELSE ParseFail

\* ------------------------------------------------------------- adapters
\* The text of the default branch of inchi_from_molfile.
UnknownMol2InchiCode == "MakeINCHIFromMolfileText: Unknown return code"

\* The text of the default branch of inchikey_from_inchi.
UnknownInchiKeyCode == "GetINCHIKeyFromINCHI: Unknown return code"

\* Faulty variant: the error branches hand the native code on instead of -1.
inchi_from_molfile_switch_NativeCode(ret, output) ==
  CASE ret = mol2inchi_Ret_OKAY ->
         to_json_inchi(0, output.szInChI, output.szAuxInfo, CStr(""), CStr(""))
    [] ret = mol2inchi_Ret_WARNING ->
         to_json_inchi(1, output.szInChI, output.szAuxInfo,
                       output.szMessage, output.szLog)
    [] ret \in { mol2inchi_Ret_EOF, mol2inchi_Ret_ERROR,
                 mol2inchi_Ret_ERROR_get, mol2inchi_Ret_ERROR_comp } ->
         to_json_inchi(ret, CStr(""), CStr(""), output.szMessage, output.szLog)
    [] OTHER ->
         to_json_inchi(ret, CStr(""), CStr(""), CStr(""), CStr(UnknownMol2InchiCode))

\* Faulty variant: the error branch hands on the identifier and auxinfo of the
\* result structure instead of "".
inchi_from_molfile_switch_ErrorFields(ret, output) ==
  CASE ret = mol2inchi_Ret_OKAY ->
         to_json_inchi(0, output.szInChI, output.szAuxInfo, CStr(""), CStr(""))
    [] ret = mol2inchi_Ret_WARNING ->
         to_json_inchi(1, output.szInChI, output.szAuxInfo,
                       output.szMessage, output.szLog)
    [] ret \in { mol2inchi_Ret_EOF, mol2inchi_Ret_ERROR,
                 mol2inchi_Ret_ERROR_get, mol2inchi_Ret_ERROR_comp } ->
         to_json_inchi(-1, output.szInChI, output.szAuxInfo,
                       output.szMessage, output.szLog)
    [] OTHER ->
         to_json_inchi(-1, CStr(""), CStr(""), CStr(""), CStr(UnknownMol2InchiCode))

\* Faulty variant: the default branch puts its text into message and leaves log
\* empty.
inchi_from_molfile_switch_DefaultMessage(ret, output) ==
  CASE ret = mol2inchi_Ret_OKAY ->
         to_json_inchi(0, output.szInChI, output.szAuxInfo, CStr(""), CStr(""))
    [] ret = mol2inchi_Ret_WARNING ->
         to_json_inchi(1, output.szInChI, output.szAuxInfo,
                       output.szMessage, output.szLog)
    [] ret \in { mol2inchi_Ret_EOF, mol2inchi_Ret_ERROR,
                 mol2inchi_Ret_ERROR_get, mol2inchi_Ret_ERROR_comp } ->
         to_json_inchi(-1, CStr(""), CStr(""), output.szMessage, output.szLog)
    [] OTHER ->
         to_json_inchi(-1, CStr(""), CStr(""), CStr(UnknownMol2InchiCode), CStr(""))

\* The switch of inchi_from_molfile: the payload built for native code ret
\* and result structure output.
inchi_from_molfile_switch(ret, output) ==
  CASE ret = mol2inchi_Ret_OKAY ->
         to_json_inchi(0, output.szInChI, output.szAuxInfo, CStr(""), CStr(""))
    [] ret = mol2inchi_Ret_WARNING ->
         to_json_inchi(1, output.szInChI, output.szAuxInfo,
                       output.szMessage, output.szLog)
    [] ret \in { mol2inchi_Ret_EOF, mol2inchi_Ret_ERROR,
                 mol2inchi_Ret_ERROR_get, mol2inchi_Ret_ERROR_comp } ->
         to_json_inchi(-1, CStr(""), CStr(""), output.szMessage, output.szLog)
    [] OTHER ->
         to_json_inchi(-1, CStr(""), CStr(""), CStr(""), CStr(UnknownMol2InchiCode))

\* Faulty variant: the branch of INCHIKEY_INVALID_STD_INCHI was copied from that of
\* INCHIKEY_INVALID_INCHI and kept its message.
inchikey_from_inchi_switch_CopiedMessage(ret, szINCHIKey) ==
  CASE ret = INCHIKEY_OK ->
         to_json_inchikey(0, szINCHIKey, CStr(""))
    [] ret = INCHIKEY_UNKNOWN_ERROR ->
         to_json_inchikey(-1, CStr(""),
           CStr("GetINCHIKeyFromINCHI: Unknown program error"))
    [] ret = INCHIKEY_EMPTY_INPUT ->
         to_json_inchikey(-1, CStr(""),
           CStr("GetINCHIKeyFromINCHI: Source string is empty"))
    [] ret = INCHIKEY_INVALID_INCHI_PREFIX ->
         to_json_inchikey(-1, CStr(""),
           CStr("GetINCHIKeyFromINCHI: Invalid InChI prefix or invalid version (not 1)"))
    [] ret = INCHIKEY_NOT_ENOUGH_MEMORY ->
         to_json_inchikey(-1, CStr(""),
           CStr("GetINCHIKeyFromINCHI: Not enough memory"))
    [] ret \in { INCHIKEY_INVALID_INCHI, INCHIKEY_INVALID_STD_INCHI } ->
         to_json_inchikey(-1, CStr(""),
           CStr("GetINCHIKeyFromINCHI: Source InChI has invalid layout"))
    [] OTHER ->
         to_json_inchikey(-1, CStr(""), CStr(UnknownInchiKeyCode))

\* The switch of inchikey_from_inchi.
inchikey_from_inchi_switch(ret, szINCHIKey) ==
  CASE ret = INCHIKEY_OK ->
         to_json_inchikey(0, szINCHIKey, CStr(""))
    [] ret = INCHIKEY_UNKNOWN_ERROR ->
         to_json_inchikey(-1, CStr(""),
           CStr("GetINCHIKeyFromINCHI: Unknown program error"))
    [] ret = INCHIKEY_EMPTY_INPUT ->
         to_json_inchikey(-1, CStr(""),
           CStr("GetINCHIKeyFromINCHI: Source string is empty"))
    [] ret = INCHIKEY_INVALID_INCHI_PREFIX ->
         to_json_inchikey(-1, CStr(""),
           CStr("GetINCHIKeyFromINCHI: Invalid InChI prefix or invalid version (not 1)"))
    [] ret = INCHIKEY_NOT_ENOUGH_MEMORY ->
         to_json_inchikey(-1, CStr(""),
           CStr("GetINCHIKeyFromINCHI: Not enough memory"))
    [] ret = INCHIKEY_INVALID_INCHI ->
         to_json_inchikey(-1, CStr(""),
           CStr("GetINCHIKeyFromINCHI: Source InChI has invalid layout"))
    [] ret = INCHIKEY_INVALID_STD_INCHI ->
         to_json_inchikey(-1, CStr(""),
           CStr("GetINCHIKeyFromINCHI: Source standard InChI has invalid layout"))
    [] OTHER ->
         to_json_inchikey(-1, CStr(""), CStr(UnknownInchiKeyCode))

\* ------------------------------------------------------------- registry
\* The keys of inchiModulePromises.
availableInchiVersions == { "1.06" }

\* What a caller may pass as inchiVersion: a declared version or another string.
InchiVersionArgs == availableInchiVersions \cup { "1.05" }

\* The value of a property the object does not have.
Undefined == "undefined"

\* Faulty variant: a version that is not declared falls back to "1.06".
RegistryEntry_DefaultVersion(promises, inchiVersion) ==
  IF inchiVersion \in DOMAIN promises THEN inchiVersion ELSE "1.06"

\* inchiModulePromises[inchiVersion]: the entry of the key inchiVersion
\* (named by its key), undefined when the object has no such key.
RegistryEntry(promises, inchiVersion) ==
  IF inchiVersion \in DOMAIN promises THEN inchiVersion ELSE Undefined

\* ------------------------------------------------------------ exceptions
\* module is undefined for an undeclared version: module.ccall throws.
TypeErrorNoModule == "TypeError: module is undefined"

\* Faulty variant: the abort of malloc raises no exception in the caller.
AbortedMalloc_NotRaised == "none"

\* malloc aborts (ABORTING_MALLOC=1): the call throws a RuntimeError.
AbortedMalloc == "RuntimeError: Aborted(OOM)"

\* The JavaScript runtime cannot build the string copy.
CopyFailure == "RangeError: Invalid string length"

\* JSON.parse throws.
DecodeFailure == "SyntaxError: JSON.parse"

\* ------------------------------------------------------------------ state
VARIABLES
  inchiModulePromises,  \* per declared version: [state, instance] of the promise
  factoryCalls,         \* per declared version: how often its factory was called
  waiters,              \* per declared version: continuations awaiting the pending promise
  queue,                \* the microtask queue: requests whose continuation is ready
  running,              \* the request whose code is executing, 0 when none is
  pc,                   \* per request: its position
  phase,                \* per request: 0 none, 1 inchiFromMolfile, 2 inchikeyFromInchi
  kind,                 \* per request: "tab1", "tab2", "drop" ("none" before and after)
  ver,                  \* per request: its inchiVersion ("none" before and after)
  module,               \* per request: the module instance its await yielded, 0 undefined
  c,                    \* the locals of the adapter call being executed
  buf,                  \* per request: the boundary buffer of its current adapter call
  heapLive,             \* boundary buffers allocated and not released
  result,               \* per request: the text copied out of the buffer
  value,                \* per request: the value its adapter promise resolved with
  err,                  \* per request: the reason its adapter promise rejected with
  log,                  \* per request: the local array log
  dom,                  \* innerHTML of the output elements
  readAfterFree,        \* some buffer or structure was read after its release
  thrown,               \* some adapter round trip ended by throwing
  alone,                \* per request under way: no other request ran since it began
  last,                 \* the conversion request issued most recently, and how it ended
  codec                 \* one payload on its way through serializer and caller, byte by byte

vars ==
  << inchiModulePromises, factoryCalls, waiters, queue, running, pc, phase, kind,
     ver, module, c, buf, heapLive, result, value, err, log, dom, readAfterFree,
     thrown, alone, last, codec >>

\* The variables of the event loop and the adapters.
programVars ==
  << inchiModulePromises, factoryCalls, waiters, queue, running, pc, phase, kind,
     ver, module, c, buf, heapLive, result, value, err, log, dom, readAfterFree,
     thrown, alone, last >>

ElementIds ==
  { "tab1-inchi", "tab1-inchikey", "tab1-auxinfo", "tab1-logs",
    "tab2-inchi", "tab2-inchikey", "tab2-auxinfo", "tab2-logs" }

\* The element ids updateTab1 / updateTab2 hand to
\* convertMolfileToInchiAndWriteResults.
Elements(k) ==
  IF k = "tab1"
    THEN [ inchi |-> "tab1-inchi", inchikey |-> "tab1-inchikey",
           auxinfo |-> "tab1-auxinfo", logs |-> "tab1-logs" ]
    ELSE [ inchi |-> "tab2-inchi", inchikey |-> "tab2-inchikey",
           auxinfo |-> "tab2-auxinfo", logs |-> "tab2-logs" ]

\* writeResult(text, id)
writeResult(d, text, id) == [ d EXCEPT ![id] = text ]

\* Array.prototype.join("\n")
RECURSIVE Join(_)
Join(s) ==
  IF s = << >> THEN ""
  ELSE IF Len(s) = 1 THEN s[1]
  ELSE s[1] \o "\n" \o Join(Tail(s))

\* No adapter call is being executed.
CIdle ==
  [ ret |-> 0, output |-> ZeroedOutput, outputState |-> "none", outputFrees |-> 0,
    szINCHIKey |-> NULL, json |-> FALSE, jsonCalls |-> 0,
    builtBeforeRelease |-> FALSE ]

\* No boundary buffer.
NoBuffer == [ st |-> "none", data |-> << >>, frees |-> 0, freedBy |-> "none" ]

\* The local `char *json` of an adapter that no branch of its switch
\* assigned: a pointer to nothing that was allocated.
UnassignedPointer ==
  [ st |-> "unassigned", data |-> << >>, frees |-> 0, freedBy |-> "none" ]

\* No payload is followed byte by byte.
CodecIdle ==
  [ stage |-> "off", fn |-> "none", return_code |-> 0, args |-> << >>,
    ptr |-> NULL, result |-> << >>, value |-> ParseFail ]

\* Faulty variant: the object literal holds no promise yet; the factory of v
\* is left to be called by the first request.
LoadModule_OnFirstRequest(v) ==
  [ promise |-> [ state |-> "absent", instance |-> 0 ], calls |-> 0 ]

\* `"1.06": inchiModule106()` in the object literal: evaluating the script
\* calls the factory of v, which returns a pending promise of instance 1.
LoadModule(v) ==
  [ promise |-> [ state |-> "pending", instance |-> 1 ], calls |-> 1 ]

\* No conversion request was issued.  (req: the request whose call of
\* convertMolfileToInchiAndWriteResults is the most recent one, while it is
\* under way; kind, error: its outputs and whether it ended in an Error
\* result, once it is over.)
NoLast == [ req |-> 0, kind |-> "none", error |-> FALSE ]

\* The page after the script was loaded.
ProgramInit ==
  /\ inchiModulePromises = [ v \in availableInchiVersions |-> LoadModule(v).promise ]
  /\ factoryCalls = [ v \in availableInchiVersions |-> LoadModule(v).calls ]
  /\ waiters = [ v \in availableInchiVersions |-> << >> ]
  /\ queue = << >>
  /\ running = 0
  /\ pc = [ r \in Req |-> "new" ]
  /\ phase = [ r \in Req |-> 0 ]
  /\ kind = [ r \in Req |-> "none" ]
  /\ ver = [ r \in Req |-> "none" ]
  /\ module = [ r \in Req |-> 0 ]
  /\ c = CIdle
  /\ buf = [ r \in Req |-> NoBuffer ]
  /\ heapLive = 0
  /\ result = [ r \in Req |-> << >> ]
  /\ value = [ r \in Req |-> << >> ]
  /\ err = [ r \in Req |-> "none" ]
  /\ log = [ r \in Req |-> << >> ]
  /\ dom = [ id \in ElementIds |-> "" ]
  /\ readAfterFree = FALSE
  /\ thrown = FALSE
  /\ alone = [ r \in Req |-> FALSE ]
  /\ last = NoLast

Init == ProgramInit /\ codec = CodecIdle

\* ------------------------------------------------------------ event loop
\* Faulty variant: the adapter call is awaited too
\* (`await module.ccall(..., {async: true})`), so that the request is
\* suspended between the call and the copy.
AwaitPoints_AsyncCcall == { "awaitModule", "resume", "copy" }

\* The positions at which a request is suspended by an await of one of the
\* program's own promises, its continuation being a microtask: the await of
\* the module promise in inchiFromMolfile / inchikeyFromInchi, and the await
\* of their promise in convertMolfileToInchiAndWriteResults.  Everything
\* between two of them runs without interruption.  (At "awaitInput" the
\* request waits for getMolfile / extractContent, which resolve as tasks.)
AwaitPoints == { "awaitModule", "resume" }

\* The event loop takes a new task (an event, a resolved external promise).
Idle == running = 0 /\ queue = << >>

\* Request r executes its next step: its continuation is the next microtask,
\* or it is the code that is running.
Begin(r) ==
  IF pc[r] \in AwaitPoints
    THEN running = 0 /\ queue # << >> /\ Head(queue) = r
    ELSE running = r

\* The microtask queue once r has begun its step.
Rest(r) == IF pc[r] \in AwaitPoints THEN Tail(queue) ELSE queue

\* r goes on to position next: it keeps running, or it is suspended there
\* with its continuation queued (the promise it awaits is settled).
GoTo(r, next) ==
  /\ pc' = [ pc EXCEPT ![r] = next ]
  /\ IF next \in AwaitPoints
       THEN running' = 0 /\ queue' = Append(Rest(r), r)
       ELSE running' = r /\ queue' = Rest(r)

\* The adapter round trip of r throws e: its promise rejects, and the
\* continuation of convertMolfileToInchiAndWriteResults is queued.  The
\* local ptr is gone with the frame: what a buffer still allocated holds
\* can no longer be read.
Throw(r, e) ==
  /\ pc' = [ pc EXCEPT ![r] = "resume" ]
  /\ buf' = [ buf EXCEPT ![r].data = << >> ]
  /\ running' = 0
  /\ queue' = Append(Rest(r), r)
  /\ err' = [ err EXCEPT ![r] = e ]
  /\ c' = CIdle
  /\ thrown' = TRUE

\* convertMolfileToInchiAndWriteResults was not called again after it was
\* called for r.
MostRecent(r) == last.req = r

\* The request r, which is about to end, got an Error result from
\* inchiFromMolfile.
EndsInError(r) ==
  phase[r] = 1 /\ err[r] = "none" /\ value[r] # << >> /\ value[r][1].return_code = -1

\* r is over: its locals are gone.
Finish(r, how) ==
  /\ alone' = [ alone EXCEPT ![r] = FALSE ]
  /\ last' = IF MostRecent(r)
               THEN [ req |-> 0, kind |-> kind[r], error |-> EndsInError(r) ]
               ELSE last
  /\ pc' = [ pc EXCEPT ![r] = how ]
  /\ running' = 0
  /\ queue' = Rest(r)
  /\ phase' = [ phase EXCEPT ![r] = 0 ]
  /\ kind' = [ kind EXCEPT ![r] = "none" ]
  /\ ver' = [ ver EXCEPT ![r] = "none" ]
  /\ module' = [ module EXCEPT ![r] = 0 ]
  /\ buf' = [ buf EXCEPT ![r] = NoBuffer ]
  /\ value' = [ value EXCEPT ![r] = << >> ]
  /\ err' = [ err EXCEPT ![r] = "none" ]
  /\ log' = [ log EXCEPT ![r] = << >> ]

\* `await inchiModulePromises[v]` by r, the queue being q: the continuation
\* waits for a pending promise, and is queued for a fulfilled promise or for
\* undefined (v is not declared).
AwaitModulePromise(r, v, q) ==
  LET e == RegistryEntry(inchiModulePromises, v) IN
  IF e # Undefined /\ inchiModulePromises[e].state = "pending"
    THEN /\ waiters' = [ waiters EXCEPT ![e] = Append(@, r) ]
         /\ queue' = q
    ELSE /\ waiters' = waiters
         /\ queue' = Append(q, r)

\* The module promise of v is fulfilled: the continuations waiting for it
\* are queued in the order in which they awaited.
ModuleReady(v) ==
  /\ Idle
  /\ inchiModulePromises[v].state = "pending"
  /\ inchiModulePromises' = [ inchiModulePromises EXCEPT ![v].state = "fulfilled" ]
  /\ queue' = waiters[v]
  /\ waiters' = [ waiters EXCEPT ![v] = << >> ]
  /\ UNCHANGED << factoryCalls, running, pc, phase, kind, ver, module, c, buf,
                  heapLive, result, value, err, log, dom, readAfterFree, thrown >>
  /\ UNCHANGED << alone, last, codec >>

\* ------------------------------------------------------- update actions
\* Requests are numbered in the order in which they are issued.
Fresh(r) == pc[r] = "new" /\ (IF r = 1 THEN TRUE ELSE pc[r - 1] # "new")

\* No other request is between its first writeResult and its end.
NoOtherUnderWay(r) ==
  \A o \in Req \ { r } : pc[o] \in { "new", "awaitInput", "done", "rejected" }

\* Faulty variant: the key output is not cleared.
ClearOutputs_KeepKey(d, el) ==
  writeResult(writeResult(writeResult(d, "", el.inchi), "", el.auxinfo), "", el.logs)

\* Lines 106-109: the four outputs are cleared.
ClearOutputs(d, el) ==
  writeResult(writeResult(writeResult(writeResult(d,
    "", el.inchi), "", el.inchikey), "", el.auxinfo), "", el.logs)

\* convertMolfileToInchiAndWriteResults up to the await in inchiFromMolfile:
\* the four outputs are cleared and the module promise is awaited.
convertStart(r, k, v) ==
  LET el == Elements(k) IN
  /\ dom' = ClearOutputs(dom, el)
  /\ pc' = [ pc EXCEPT ![r] = "awaitModule" ]
  /\ phase' = [ phase EXCEPT ![r] = 1 ]
  /\ kind' = [ kind EXCEPT ![r] = k ]
  /\ ver' = [ ver EXCEPT ![r] = v ]
  /\ running' = 0
  /\ alone' = [ o \in Req |-> IF o = r THEN NoOtherUnderWay(r) ELSE FALSE ]
  /\ last' = [ req |-> r, kind |-> "none", error |-> FALSE ]
  /\ AwaitModulePromise(r, v, queue)
  /\ UNCHANGED << inchiModulePromises, factoryCalls, module, c, buf, heapLive,
                  result, value, err, log, readAfterFree, thrown >>

\* updateTab1 up to `await getKetcher().getMolfile()`.
updateTab1(r) ==
  /\ Idle
  /\ Fresh(r)
  /\ pc' = [ pc EXCEPT ![r] = "awaitInput" ]
  /\ kind' = [ kind EXCEPT ![r] = "tab1" ]
  /\ UNCHANGED << inchiModulePromises, factoryCalls, waiters, queue, running, phase,
                  ver, module, c, buf, heapLive, result, value, err, log, dom,
                  readAfterFree, thrown >>
  /\ UNCHANGED << alone, last, codec >>

\* updateTab1 after getMolfile resolved: the version is read and
\* convertMolfileToInchiAndWriteResults is called.
updateTab1Resume(r) ==
  /\ Idle
  /\ pc[r] = "awaitInput"
  /\ kind[r] = "tab1"
  /\ \E v \in InchiVersionArgs : convertStart(r, "tab1", v)
  /\ UNCHANGED codec

\* updateTab2 (an option of tab 2 changed).
updateTab2(r) ==
  /\ Idle
  /\ Fresh(r)
  /\ \E v \in InchiVersionArgs : convertStart(r, "tab2", v)
  /\ UNCHANGED codec

\* onMolfileTextareaDrop up to `await extractContent(...)`.
onMolfileTextareaDrop(r) ==
  /\ Idle
  /\ Fresh(r)
  /\ pc' = [ pc EXCEPT ![r] = "awaitInput" ]
  /\ kind' = [ kind EXCEPT ![r] = "drop" ]
  /\ UNCHANGED << inchiModulePromises, factoryCalls, waiters, queue, running, phase,
                  ver, module, c, buf, heapLive, result, value, err, log, dom,
                  readAfterFree, thrown >>
  /\ UNCHANGED << alone, last, codec >>

\* onMolfileTextareaDrop after extractContent resolved: nothing is done
\* without content, otherwise updateTab2 is called.
onMolfileTextareaDropResume(r) ==
  /\ Idle
  /\ pc[r] = "awaitInput"
  /\ kind[r] = "drop"
  /\ \/ /\ Finish(r, "done")
        /\ UNCHANGED << inchiModulePromises, factoryCalls, waiters, c, heapLive,
                        result, dom, readAfterFree, thrown >>
     \/ \E v \in InchiVersionArgs : convertStart(r, "tab2", v)
  /\ UNCHANGED codec

\* ------------------------------------------------------- Engine Registry
\* Faulty variant: every resolution calls the factory of v again and yields the new
\* instance.
ResolveModule_CallFactory(promises, calls, v) ==
  [ instance |-> calls[v] + 1, calls |-> [ calls EXCEPT ![v] = @ + 1 ] ]

\* What `await inchiModulePromises[v]` yields for a declared version v: the
\* instance the memoized promise was fulfilled with; the factory is not
\* called again.
ResolveModule(promises, calls, v) ==
  [ instance |-> promises[v].instance, calls |-> calls ]

\* ------------------------------------------------- Boundary Memory Manager
\* Module._malloc for a payload: a live buffer holding it.
malloc_payload(payload) ==
  [ st |-> "live", data |-> << payload >>, frees |-> 0, freedBy |-> "none" ]

\* Faulty variant: the caller does not release the buffer.
module_free_Omitted(b, who) == b

\* module._free(ptr) by who: the buffer is released and what it held is gone.
module_free(b, who) ==
  [ b EXCEPT !.st = "freed", !.data = << >>, !.frees = @ + 1,
             !.freedBy = IF b.st = "live" THEN who ELSE @ ]

\* Faulty variant: the default branch returns without releasing the structure.
FreeINCHI_free_NotOnDefault(cs) ==
  IF cs.ret \in Mol2InchiKnown
    THEN [ cs EXCEPT !.output = ZeroedOutput, !.outputState = "freed",
                     !.outputFrees = @ + 1, !.builtBeforeRelease = cs.json ]
    ELSE cs

\* FreeINCHI(output); free(output): the string fields and the structure
\* are released.
FreeINCHI_free(cs) ==
  [ cs EXCEPT !.output = ZeroedOutput, !.outputState = "freed",
              !.outputFrees = @ + 1, !.builtBeforeRelease = cs.json ]

\* Faulty variant: the switch has no default branch, so that for a code that
\* is none of its case labels no serializer is called and json stays
\* unassigned.
adapter_switch_NoDefault(ph, cs) ==
  IF ph = 1
    THEN IF cs.ret \in Mol2InchiKnown
           THEN << inchi_from_molfile_switch(cs.ret, cs.output) >>
           ELSE << >>
    ELSE IF cs.ret \in InchiKeyKnown
           THEN << inchikey_from_inchi_switch(cs.ret, cs.szINCHIKey) >>
           ELSE << >>

\* The serializer calls the switch of the adapter makes, in their order, for
\* the locals cs (ph = 1: inchi_from_molfile, ph = 2: inchikey_from_inchi).
\* Every case ends in break and there is a default, so the switch runs the
\* body of one branch, and every body is one assignment
\* `json = to_json_...(...)`.
adapter_switch(ph, cs) ==
  IF ph = 1
    THEN << inchi_from_molfile_switch(cs.ret, cs.output) >>
    ELSE << inchikey_from_inchi_switch(cs.ret, cs.szINCHIKey) >>

\* -------------------------------------------------------------- Host Bridge
\* inchiFromMolfile / inchikeyFromInchi after `await inchiModulePromises[..]`:
\* module.ccall enters the adapter, or throws because module is undefined.
ccall(r) ==
  /\ pc[r] = "awaitModule"
  /\ Begin(r)
  /\ IF RegistryEntry(inchiModulePromises, ver[r]) # Undefined
       THEN LET e == RegistryEntry(inchiModulePromises, ver[r])
                m == ResolveModule(inchiModulePromises, factoryCalls, e) IN
            /\ module' = [ module EXCEPT ![r] = m.instance ]
            /\ factoryCalls' = [ factoryCalls EXCEPT ![e] = m.calls[e] ]
            /\ GoTo(r, IF phase[r] = 1 THEN "c_malloc" ELSE "c_native")
            /\ UNCHANGED << err, c, thrown, buf >>
       ELSE /\ Throw(r, TypeErrorNoModule)
            /\ UNCHANGED << module, factoryCalls >>
  /\ UNCHANGED << inchiModulePromises, waiters, phase, kind, ver, heapLive,
                  result, value, log, dom, readAfterFree >>
  /\ UNCHANGED << alone, last, codec >>

\* inchi_from_molfile: output = malloc(sizeof(*output)); memset(output, 0, ..).
\* malloc aborts when there is no memory.
inchi_from_molfile_malloc(r) ==
  /\ pc[r] = "c_malloc"
  /\ Begin(r)
  /\ \/ /\ c' = [ c EXCEPT !.output = ZeroedOutput, !.outputState = "allocated" ]
        /\ GoTo(r, "c_native")
        /\ UNCHANGED << err, thrown, buf >>
     \/ Throw(r, AbortedMalloc)
  /\ UNCHANGED << inchiModulePromises, factoryCalls, waiters, phase, kind, ver,
                  module, heapLive, result, value, log, dom, readAfterFree >>
  /\ UNCHANGED << alone, last, codec >>

\* ret = MakeINCHIFromMolfileText(molfile, options, output)
MakeINCHIFromMolfileText(r) ==
  /\ pc[r] = "c_native"
  /\ phase[r] = 1
  /\ Begin(r)
  /\ \E ret \in Mol2InchiCodes, out \in NativeOutputs :
       c' = [ c EXCEPT !.ret = ret, !.output = out ]
  /\ GoTo(r, "c_switch")
  /\ UNCHANGED << inchiModulePromises, factoryCalls, waiters, phase, kind, ver,
                  module, buf, heapLive, result, value, err, log, dom,
                  readAfterFree, thrown >>
  /\ UNCHANGED << alone, last, codec >>

\* ret = GetINCHIKeyFromINCHI(inchi, 0, 0, szINCHIKey, szXtra1, szXtra2)
GetINCHIKeyFromINCHI(r) ==
  /\ pc[r] = "c_native"
  /\ phase[r] = 2
  /\ Begin(r)
  /\ \E ret \in InchiKeyCodes :
       \E key \in KeyBuffers(ret) :
         c' = [ c EXCEPT !.ret = ret, !.szINCHIKey = key ]
  /\ GoTo(r, "c_switch")
  /\ UNCHANGED << inchiModulePromises, factoryCalls, waiters, phase, kind, ver,
                  module, buf, heapLive, result, value, err, log, dom,
                  readAfterFree, thrown >>
  /\ UNCHANGED << alone, last, codec >>

\* The switch of the adapter: to_json_inchi / to_json_inchikey builds the
\* payload and allocates the boundary buffer for it (Module._malloc, which
\* aborts when there is no memory); json is the buffer of the last call.
adapter_to_json(r) ==
  /\ pc[r] = "c_switch"
  /\ Begin(r)
  /\ \/ LET calls == adapter_switch(phase[r], c) IN
        /\ buf' = [ buf EXCEPT ![r] = IF calls = << >>
                                        THEN UnassignedPointer
                                        ELSE malloc_payload(calls[Len(calls)]) ]
        /\ heapLive' = heapLive + Len(calls)
        /\ c' = [ c EXCEPT !.json = (calls # << >>), !.jsonCalls = Len(calls) ]
        /\ readAfterFree' = (readAfterFree \/ (phase[r] = 1 /\ c.outputState # "allocated"))
        /\ GoTo(r, IF phase[r] = 1 THEN "c_free" ELSE "c_ret")
        /\ UNCHANGED << err, thrown >>
     \/ /\ Throw(r, AbortedMalloc)
        /\ UNCHANGED << heapLive, readAfterFree >>
  /\ UNCHANGED << inchiModulePromises, factoryCalls, waiters, phase, kind, ver,
                  module, result, value, log, dom >>
  /\ UNCHANGED << alone, last, codec >>

\* inchi_from_molfile after the switch: FreeINCHI(output); free(output).
inchi_from_molfile_free(r) ==
  /\ pc[r] = "c_free"
  /\ Begin(r)
  /\ c' = FreeINCHI_free(c)
  /\ GoTo(r, "c_ret")
  /\ UNCHANGED << inchiModulePromises, factoryCalls, waiters, phase, kind, ver,
                  module, buf, heapLive, result, value, err, log, dom,
                  readAfterFree, thrown >>
  /\ UNCHANGED << alone, last, codec >>

\* `return json`: the adapter's frame is gone, ccall returns ptr.
adapter_return(r) ==
  /\ pc[r] = "c_ret"
  /\ Begin(r)
  /\ c' = CIdle
  /\ GoTo(r, "copy")
  /\ UNCHANGED << inchiModulePromises, factoryCalls, waiters, phase, kind, ver,
                  module, buf, heapLive, result, value, err, log, dom,
                  readAfterFree, thrown >>
  /\ UNCHANGED << alone, last, codec >>

\* const result = module.UTF8ToString(ptr): the payload is copied out of the
\* buffer, or the copy throws.
copy(r) ==
  /\ pc[r] = "copy"
  /\ Begin(r)
  /\ \/ /\ result' = [ result EXCEPT ![r] = buf[r].data ]
        /\ readAfterFree' = (readAfterFree \/ buf[r].st # "live")
        /\ GoTo(r, "free")
        /\ UNCHANGED << err, c, thrown, buf >>
     \/ /\ Throw(r, CopyFailure)
        /\ UNCHANGED << result, readAfterFree >>
  /\ UNCHANGED << inchiModulePromises, factoryCalls, waiters, phase, kind, ver,
                  module, heapLive, value, log, dom >>
  /\ UNCHANGED << alone, last, codec >>

\* module._free(ptr)
free(r) ==
  /\ pc[r] = "free"
  /\ Begin(r)
  /\ LET b == module_free(buf[r], "caller") IN
     /\ buf' = [ buf EXCEPT ![r] = b ]
     /\ heapLive' = IF buf[r].st = "live" /\ b.st = "freed" THEN heapLive - 1 ELSE heapLive
  /\ GoTo(r, "parse")
  /\ UNCHANGED << inchiModulePromises, factoryCalls, waiters, phase, kind, ver,
                  module, c, result, value, err, log, dom, readAfterFree, thrown >>
  /\ UNCHANGED << alone, last, codec >>

\* return JSON.parse(result): the promise of the round trip is fulfilled with
\* the decoded payload, or JSON.parse throws.  (The payloads of this flow
\* hold no character that JSON escapes.)
parse(r) ==
  /\ pc[r] = "parse"
  /\ Begin(r)
  /\ \/ /\ value' = [ value EXCEPT ![r] = result[r] ]
        /\ GoTo(r, "resume")
        /\ UNCHANGED << err, c, thrown, buf >>
     \/ /\ Throw(r, DecodeFailure)
        /\ UNCHANGED value
  /\ result' = [ result EXCEPT ![r] = << >> ]
  /\ UNCHANGED << inchiModulePromises, factoryCalls, waiters, phase, kind, ver,
                  module, heapLive, log, dom, readAfterFree >>
  /\ UNCHANGED << alone, last, codec >>

\* --------------------------------- convertMolfileToInchiAndWriteResults
\* `inchikeyResult == -1`: an object compared with a number.  The object is
\* converted to the primitive "[object Object]" and that to NaN, which
\* equals no number.
LooseEqualsNumber(object, n) == FALSE

\* Faulty variant: only return_code 0 counts as success.
NeedsInchikey_OkOnly(inchiResult) ==
  inchiResult.return_code = 0 /\ inchiResult.inchi # ""

\* Line 126: (inchiResult.return_code != -1) && (inchiResult.inchi != "")
NeedsInchikey(inchiResult) ==
  inchiResult.return_code # -1 /\ inchiResult.inchi # ""

\* After `await inchiFromMolfile(...)`: the catch block, or the identifier
\* and auxinfo are written and, for a result that is no error and has an
\* identifier, inchikeyFromInchi is called (up to its await).
convertAfterInchi(r) ==
  /\ pc[r] = "resume"
  /\ phase[r] = 1
  /\ Begin(r)
  /\ LET el == Elements(kind[r]) IN
     IF err[r] # "none"
       THEN /\ dom' = writeResult(dom, err[r], el.logs)
            /\ Finish(r, "done")
            /\ UNCHANGED waiters
       ELSE LET inchiResult == value[r][1]
                d1 == writeResult(writeResult(dom, inchiResult.inchi, el.inchi),
                                  inchiResult.auxinfo, el.auxinfo)
                lg == IF inchiResult.log # "" THEN << inchiResult.log >> ELSE << >>
            IN
            IF NeedsInchikey(inchiResult)
              THEN /\ dom' = d1
                   /\ log' = [ log EXCEPT ![r] = lg ]
                   /\ phase' = [ phase EXCEPT ![r] = 2 ]
                   /\ pc' = [ pc EXCEPT ![r] = "awaitModule" ]
                   /\ value' = [ value EXCEPT ![r] = << >> ]
                   /\ buf' = [ buf EXCEPT ![r] = NoBuffer ]
                   /\ running' = 0
                   /\ AwaitModulePromise(r, ver[r], Rest(r))
                   /\ UNCHANGED << kind, ver, module, err, alone, last >>
              ELSE /\ dom' = writeResult(d1, Join(lg), el.logs)
                   /\ Finish(r, "done")
                   /\ UNCHANGED waiters
  /\ UNCHANGED << inchiModulePromises, factoryCalls, c, heapLive, result,
                  readAfterFree, thrown >>
  /\ UNCHANGED codec

\* After `await inchikeyFromInchi(...)`: the catch block pushes the reason
\* and leaves inchikeyResult undefined, so that reading its inchikey throws
\* and the function ends rejected; otherwise the key and the log are written.
convertAfterInchikey(r) ==
  /\ pc[r] = "resume"
  /\ phase[r] = 2
  /\ Begin(r)
  /\ LET el == Elements(kind[r]) IN
     IF err[r] # "none"
       THEN /\ dom' = dom
            /\ Finish(r, "rejected")
       ELSE LET inchikeyResult == value[r][1]
                d1 == writeResult(dom, inchikeyResult.inchikey, el.inchikey)
                lg == IF LooseEqualsNumber(inchikeyResult, -1) /\ inchikeyResult.message # ""
                        THEN Append(log[r], inchikeyResult.message)
                        ELSE log[r]
            IN
            /\ dom' = writeResult(d1, Join(lg), el.logs)
            /\ Finish(r, "done")
  /\ UNCHANGED << inchiModulePromises, factoryCalls, waiters, c, heapLive, result,
                  readAfterFree, thrown >>
  /\ UNCHANGED codec

\* ------------------------------------------------------------ specification
Next ==
  \/ \E v \in availableInchiVersions : ModuleReady(v)
  \/ \E r \in Req :
       \/ updateTab1(r)
       \/ updateTab1Resume(r)
       \/ updateTab2(r)
       \/ onMolfileTextareaDrop(r)
       \/ onMolfileTextareaDropResume(r)
       \/ ccall(r)
       \/ inchi_from_molfile_malloc(r)
       \/ MakeINCHIFromMolfileText(r)
       \/ GetINCHIKeyFromINCHI(r)
       \/ adapter_to_json(r)
       \/ inchi_from_molfile_free(r)
       \/ adapter_return(r)
       \/ copy(r)
       \/ free(r)
       \/ parse(r)
       \/ convertAfterInchi(r)
       \/ convertAfterInchikey(r)

Spec == Init /\ [][Next]_vars

\* --------------------------------------------- one payload, byte by byte
\* The characters of the field strings: a letter, the quote, the backslash,
\* a control character with a two-character escape (line feed), one without
\* (U+0001), and a character of two bytes (U+00E9).
CodecChars == { 97, 34, 92, 10, 1, 233 }

Texts == UNION { [ 1..n -> CodecChars ] : n \in 0..MaxFieldLen }

\* The char* of a C string holding text.
CString(text) == << stringToUTF8(text, lengthBytesUTF8(text) + 1) >>

\* What an adapter hands to a serializer for one field: NULL, or a string.
FieldArgs ==
  { [ ptr |-> NULL, text |-> << >> ] }
  \cup { [ ptr |-> CString(t), text |-> t ] : t \in Texts }

\* The calls followed: to_json_inchikey with any two fields, to_json_inchi
\* with any field in one place and a letter of its own in each other place.
CodecInputs ==
  { [ CodecIdle EXCEPT !.stage = "args", !.fn = "to_json_inchikey",
                       !.return_code = rc, !.args = << f, g >> ] :
      rc \in { 0, -1 }, f \in FieldArgs, g \in FieldArgs }
  \cup
  { [ CodecIdle EXCEPT !.stage = "args", !.fn = "to_json_inchi",
                       !.return_code = rc,
                       !.args = [ [ j \in 1..4 |->
                                    [ ptr |-> CString(<< 104 + j >>),
                                      text |-> << 104 + j >> ] ]
                                  EXCEPT ![k] = f ] ] :
      rc \in { 1, 12 }, f \in FieldArgs, k \in 1..4 }

InitCodec == ProgramInit /\ codec \in CodecInputs

\* The serializer is called and returns jsonPtr.
codec_to_json ==
  /\ codec.stage = "args"
  /\ codec' = [ codec EXCEPT
       !.stage = "returned",
       !.ptr = IF codec.fn = "to_json_inchi"
                 THEN to_json_inchi_bytes(codec.return_code, codec.args[1].ptr,
                        codec.args[2].ptr, codec.args[3].ptr, codec.args[4].ptr)
                 ELSE to_json_inchikey_bytes(codec.return_code, codec.args[1].ptr,
                        codec.args[2].ptr) ]
  /\ UNCHANGED programVars

\* const result = module.UTF8ToString(ptr)
codec_UTF8ToString ==
  /\ codec.stage = "returned"
  /\ codec' = [ codec EXCEPT !.stage = "copied", !.result = UTF8ToStringAt(codec.ptr) ]
  /\ UNCHANGED programVars

\* module._free(ptr)
codec_free ==
  /\ codec.stage = "copied"
  /\ codec' = [ codec EXCEPT !.stage = "freed", !.ptr = NULL ]
  /\ UNCHANGED programVars

\* return JSON.parse(result)
codec_JSON_parse ==
  /\ codec.stage = "freed"
  /\ codec' = [ codec EXCEPT !.stage = "parsed", !.value = JSON_parse(codec.result) ]
  /\ UNCHANGED programVars

NextCodec ==
  \/ codec_to_json
  \/ codec_UTF8ToString
  \/ codec_free
  \/ codec_JSON_parse

SpecCodec == InitCodec /\ [][NextCodec]_vars

\* ================================================================ properties
\* The positions inside an adapter round trip, from module.ccall to the
\* return of inchiFromMolfile / inchikeyFromInchi.
RoundTrip == { "c_malloc", "c_native", "c_switch", "c_free", "c_ret",
               "copy", "free", "parse" }

\* The payload in the boundary buffer of r.
Payload(r) == buf[r].data[1]

\* C1: buffer balance.  When every adapter round trip made so far ran to its
\* return (none threw, none is under way), no boundary buffer allocated by
\* to_json_inchi / to_json_inchikey is left unreleased.
C1_BufferBalance ==
  (~thrown /\ \A r \in Req : pc[r] \notin RoundTrip) => heapLive = 0

\* Both requests have come back from their second round trip (four round
\* trips in all, none threw) and nothing is outstanding.
C1_Witness ==
  /\ ~thrown
  /\ heapLive = 0
  /\ \A r \in {1, 2} : pc[r] = "resume" /\ phase[r] = 2 /\ value[r] # << >>

\* C2: every boundary buffer an adapter returned is released by the caller
\* exactly once -- not twice, not by the adapter, and, once its round trip is
\* over, not zero times -- and is never read after its release.
C2_ReleasedExactlyOnce ==
  /\ ~readAfterFree
  /\ \A r \in Req :
       /\ buf[r].frees <= 1
       /\ buf[r].freedBy \in { "none", "caller" }
       /\ (pc[r] = "resume" /\ buf[r].st # "none") =>
            (buf[r].st = "freed" /\ buf[r].frees = 1)

\* C3: in inchi_from_molfile the result structure is released exactly once
\* whatever the native code, after the payload was built from fields that
\* were still allocated and before the adapter returns; the caller, which
\* runs once the adapter's frame is gone, has nothing of it to release.
C3_OutputReleasedOnce ==
  /\ ~readAfterFree
  /\ \A r \in Req :
       /\ (pc[r] = "c_ret" /\ phase[r] = 1) =>
            /\ c.outputState = "freed"
            /\ c.outputFrees = 1
            /\ c.json
            /\ c.builtBeforeRelease
       /\ pc[r] \in { "copy", "free", "parse" } => c = CIdle

\* inchi_from_molfile is about to return on its default branch, the
\* structure released once.
C3_Witness ==
  \E r \in Req :
    /\ pc[r] = "c_ret"
    /\ phase[r] = 1
    /\ c.ret \notin Mol2InchiKnown
    /\ c.outputFrees = 1

\* C4: when the round trip of inchiFromMolfile / inchikeyFromInchi fails
\* after a boundary buffer was obtained, the buffer has been released by the
\* time the call is rejected.
C4_ReleasedBeforeFailure ==
  \A r \in Req :
    (pc[r] = "resume" /\ err[r] # "none" /\ buf[r].st # "none") => buf[r].st = "freed"

\* A request is inside a native call or holds its buffer unreleased: from
\* the start of ccall to module._free.
InFlight(r) ==
  pc[r] \in { "c_malloc", "c_native", "c_switch", "c_free", "c_ret", "copy", "free" }

\* C5: at most one native call is in flight on an engine instance: the
\* stretch from ccall to the release of the buffer of one request never
\* overlaps that of another request on the same instance.
C5_OneInFlight ==
  \A r1, r2 \in Req :
    (r1 # r2 /\ InFlight(r1) /\ InFlight(r2)) => module[r1] # module[r2]

\* A request of tab 1 is in flight while a request of tab 2 for the same
\* version is suspended at one of its awaits.
C5_Witness ==
  \E r1, r2 \in Req :
    /\ InFlight(r1)
    /\ pc[r2] \in AwaitPoints
    /\ kind[r1] = "tab1"
    /\ kind[r2] = "tab2"
    /\ ver[r1] = ver[r2]

\* C6: Engine Registry idempotence.  The factory of a declared version is
\* called at most once, and every resolution of the version, by either
\* adapter call of any request, yields the one instance of its promise.
C6_RegistryIdempotent ==
  /\ \A v \in availableInchiVersions : factoryCalls[v] <= 1
  /\ \A r \in Req :
       module[r] # 0 => module[r] = inchiModulePromises[ver[r]].instance
  /\ \A r1, r2 \in Req :
       (module[r1] # 0 /\ module[r2] # 0 /\ ver[r1] = ver[r2]) => module[r1] = module[r2]

\* Two requests resolved the version and got the same instance: one just
\* now in inchikeyFromInchi, the other before in inchiFromMolfile (it has
\* not yet resumed from the await of its inchikeyFromInchi).
C6_Witness ==
  \E r1, r2 \in Req :
    /\ r1 # r2
    /\ module[r1] # 0
    /\ module[r2] = module[r1]
    /\ phase[r1] = 2
    /\ pc[r1] = "c_native"
    /\ phase[r2] = 2
    /\ pc[r2] = "awaitModule"
    /\ factoryCalls[ver[r1]] = 1

\* inchi_from_molfile has built its payload and not yet released output.
AfterInchiSwitch(r) == pc[r] = "c_free" /\ phase[r] = 1

\* C7: inchi_from_molfile maps the native code to return_code by a closed
\* table: OKAY to 0, WARNING to 1, EOF / ERROR / ERROR_get / ERROR_comp to
\* -1 and every other integer to -1, so return_code is one of 0, 1, -1.
C7_ReturnCodeTable ==
  \A r \in Req :
    AfterInchiSwitch(r) =>
      LET rc == Payload(r).return_code IN
      /\ rc \in { 0, 1, -1 }
      /\ c.ret = mol2inchi_Ret_OKAY => rc = 0
      /\ c.ret = mol2inchi_Ret_WARNING => rc = 1
      /\ c.ret \in { mol2inchi_Ret_EOF, mol2inchi_Ret_ERROR,
                     mol2inchi_Ret_ERROR_get, mol2inchi_Ret_ERROR_comp } => rc = -1
      /\ c.ret \notin Mol2InchiKnown => rc = -1

\* The payload of a composition error (native code 5) carries -1.
C7_Witness ==
  \E r \in Req :
    /\ AfterInchiSwitch(r)
    /\ c.ret = mol2inchi_Ret_ERROR_comp
    /\ Payload(r).return_code = -1

\* C8: in every conversion payload, return_code -1 comes with empty inchi
\* and auxinfo; return_code 0 with empty message and log and with the
\* identifier and auxinfo of the result structure; return_code 1 with all
\* four strings of the result structure.
C8_PayloadFields ==
  \A r \in Req :
    AfterInchiSwitch(r) =>
      LET p == Payload(r) IN
      /\ p.return_code = -1 => (p.inchi = "" /\ p.auxinfo = "")
      /\ p.return_code = 0 =>
           /\ p.message = "" /\ p.log = ""
           /\ p.inchi = UTF8ToString(c.output.szInChI)
           /\ p.auxinfo = UTF8ToString(c.output.szAuxInfo)
      /\ p.return_code = 1 =>
           /\ p.inchi = UTF8ToString(c.output.szInChI)
           /\ p.auxinfo = UTF8ToString(c.output.szAuxInfo)
           /\ p.message = UTF8ToString(c.output.szMessage)
           /\ p.log = UTF8ToString(c.output.szLog)

\* An error payload whose identifier is empty although the result structure
\* holds one.
C8_Witness ==
  \E r \in Req :
    /\ AfterInchiSwitch(r)
    /\ Payload(r).return_code = -1
    /\ c.output = FilledOutput
    /\ Payload(r).inchi = ""

\* C9 as stated: for a native code outside the known set the payload has
\* return_code -1, empty inchi and auxinfo, and the "unknown return code"
\* text in its message field.
C9_UnknownCodeInMessage ==
  \A r \in Req :
    (AfterInchiSwitch(r) /\ c.ret \notin Mol2InchiKnown) =>
      /\ Payload(r).return_code = -1
      /\ Payload(r).inchi = ""
      /\ Payload(r).auxinfo = ""
      /\ Payload(r).message = UnknownMol2InchiCode

\* C9 as amended: for a native code outside the known set the payload has
\* return_code -1, empty inchi and auxinfo, an empty message field, and the
\* "unknown return code" text in its log field.
C9_UnknownCodeInLog ==
  \A r \in Req :
    (AfterInchiSwitch(r) /\ c.ret \notin Mol2InchiKnown) =>
      /\ Payload(r).return_code = -1
      /\ Payload(r).inchi = ""
      /\ Payload(r).auxinfo = ""
      /\ Payload(r).message = ""
      /\ Payload(r).log = UnknownMol2InchiCode

\* The payload of an unknown native code, the result structure being filled.
C9_Witness ==
  \E r \in Req :
    /\ AfterInchiSwitch(r)
    /\ c.ret \notin Mol2InchiKnown
    /\ c.output = FilledOutput
    /\ Payload(r).log = UnknownMol2InchiCode

\* inchikey_from_inchi has built its payload and not yet returned.
AfterInchikeySwitch(r) == pc[r] = "c_ret" /\ phase[r] = 2

\* The six named error codes of GetINCHIKeyFromINCHI.
InchiKeyErrors == InchiKeyKnown \ { INCHIKEY_OK }

\* The case of the 7-way table (and its default) a code falls into.
InchiKeyCase(ret) == IF ret \in InchiKeyKnown THEN ret ELSE -1

\* C10: inchikey_from_inchi maps the native code by a closed table: OK gives
\* return_code 0, the key of the key buffer and an empty message; each of
\* the six named error codes gives return_code -1, an empty key and a
\* message of its own, different from that of every other case; any other
\* code gives return_code -1, an empty key and the "Unknown return code"
\* message.
C10_InchikeyTable ==
  \A r \in Req :
    AfterInchikeySwitch(r) =>
      LET p == Payload(r) IN
      /\ c.ret = INCHIKEY_OK =>
           /\ p.return_code = 0
           /\ p.inchikey = UTF8ToString(c.szINCHIKey)
           /\ p.message = ""
      /\ c.ret \in InchiKeyErrors =>
           /\ p.return_code = -1
           /\ p.inchikey = ""
           /\ p.message \notin { "", UnknownInchiKeyCode }
           /\ \A other \in InchiKeyCodes :
                InchiKeyCase(other) # InchiKeyCase(c.ret) =>
                  inchikey_from_inchi_switch(other, c.szINCHIKey).message # p.message
      /\ c.ret \notin InchiKeyKnown =>
           /\ p.return_code = -1
           /\ p.inchikey = ""
           /\ p.message = UnknownInchiKeyCode

\* The payload of INCHIKEY_INVALID_STD_INCHI: an error with an empty key
\* although the key buffer holds bytes.
C10_Witness ==
  \E r \in Req :
    /\ AfterInchikeySwitch(r)
    /\ c.ret = INCHIKEY_INVALID_STD_INCHI
    /\ c.szINCHIKey # NULL
    /\ Payload(r).return_code = -1
    /\ Payload(r).inchikey = ""

\* A payload of the schema of adapter ph: its fields and a return_code of
\* the closed enumeration.
WellFormed(ph, p) ==
  /\ DOMAIN p = IF ph = 1
                  THEN { "return_code", "inchi", "auxinfo", "message", "log" }
                  ELSE { "return_code", "inchikey", "message" }
  /\ p.return_code \in { 0, 1, -1 }

\* C11: for every native code, known or not, a call of inchi_from_molfile /
\* inchikey_from_inchi that has passed its switch has made exactly one
\* serializer call, which allocated exactly one boundary buffer, and json
\* points to that live buffer holding a well-formed payload; this is the
\* pointer the adapter returns and the caller copies from.
C11_OnePayloadBuffer ==
  \A r \in Req :
    /\ pc[r] \in { "c_free", "c_ret" } =>
         /\ c.json
         /\ c.jsonCalls = 1
    /\ pc[r] \in { "c_free", "c_ret", "copy" } =>
         /\ buf[r].st = "live"
         /\ Len(buf[r].data) = 1
         /\ WellFormed(phase[r], Payload(r))

\* inchikey_from_inchi returns for a code that is none of its case labels,
\* the conversion of the same request having come back before.
C11_Witness ==
  \E r \in Req :
    /\ pc[r] = "c_ret"
    /\ phase[r] = 2
    /\ c.ret \notin InchiKeyKnown
    /\ c.jsonCalls = 1
    /\ buf[r].st = "live"

\* The object the caller is to get for the call followed: the code and each
\* field string under its own name ("" for NULL).
CodecExpected ==
  IF codec.fn = "to_json_inchi"
    THEN (Key_return_code :> [ num |-> codec.return_code ])
         @@ (Key_inchi :> [ str |-> codec.args[1].text ])
         @@ (Key_auxinfo :> [ str |-> codec.args[2].text ])
         @@ (Key_message :> [ str |-> codec.args[3].text ])
         @@ (Key_log :> [ str |-> codec.args[4].text ])
    ELSE (Key_return_code :> [ num |-> codec.return_code ])
         @@ (Key_inchikey :> [ str |-> codec.args[1].text ])
         @@ (Key_message :> [ str |-> codec.args[2].text ])

\* C12: payload round trip.  Whatever the field strings handed to
\* to_json_inchi / to_json_inchikey hold -- quotes, backslashes, control
\* characters -- JSON.parse of the text copied out of the returned buffer
\* succeeds and yields the same return_code and the same string in each
\* field.
C12_PayloadRoundTrip ==
  codec.stage = "parsed" =>
    /\ codec.value.ok
    /\ codec.value.val = CodecExpected

\* A key payload came back whose key is a quote and a backslash and whose
\* message is a line feed and U+0001.
C12_Witness ==
  /\ codec.stage = "parsed"
  /\ codec.fn = "to_json_inchikey"
  /\ codec.args[1].text = << 34, 92 >>
  /\ codec.args[2].text = << 10, 1 >>
  /\ codec.value.ok
  /\ codec.value.val[Key_message].str = << 10, 1 >>

\* C13: a request whose version is not a key of the registry fails: its
\* await yields no module, so it never enters an adapter, never gets an
\* instance (of whatever version) and never obtains a boundary buffer, and
\* its inchiFromMolfile rejects with the error of the missing module.
C13_UndeclaredVersionFails ==
  \A r \in Req :
    (ver[r] # "none" /\ ver[r] \notin availableInchiVersions) =>
      /\ module[r] = 0
      /\ phase[r] = 1
      /\ pc[r] \in { "awaitModule", "resume" }
      /\ buf[r].st = "none"
      /\ value[r] = << >>
      /\ pc[r] = "resume" => err[r] = TypeErrorNoModule

\* The inchiFromMolfile of a request for "1.05" has rejected, without an
\* instance and without a buffer, while another request awaits the pending
\* module of "1.06".
C13_Witness ==
  \E r1, r2 \in Req :
    /\ ver[r1] = "1.05"
    /\ pc[r1] = "resume"
    /\ err[r1] = TypeErrorNoModule
    /\ module[r1] = 0
    /\ buf[r1].st = "none"
    /\ ver[r2] = "1.06"
    /\ pc[r2] = "awaitModule"

\* No update request has been issued.
NoRequestYet == \A r \in Req : pc[r] = "new"

\* C14 as stated: instantiation is triggered by the first request: as long
\* as no request has been issued, no instantiation of any version has been
\* started.
C14_InstantiatedOnFirstRequest ==
  NoRequestYet => \A v \in availableInchiVersions : factoryCalls[v] = 0

\* C14 as amended: the instantiation of every declared version is started
\* once when the script is loaded: in every state, those without any
\* request included, the factory of the version has been called exactly
\* once and its promise exists (pending or fulfilled); requests only await it.
C14_InstantiatedAtLoad ==
  \A v \in availableInchiVersions :
    /\ factoryCalls[v] = 1
    /\ inchiModulePromises[v].state \in { "pending", "fulfilled" }
    /\ inchiModulePromises[v].instance = 1

\* The module of "1.06" is ready before any request was issued.
C14_Witness ==
  /\ NoRequestYet
  /\ factoryCalls["1.06"] = 1
  /\ inchiModulePromises["1.06"].state = "fulfilled"

\* convertMolfileToInchiAndWriteResults of r completes in this step, its
\* conversion having given an Error result.
CompletesWithError(r) ==
  pc[r] = "resume" /\ EndsInError(r) /\ pc'[r] \in { "done", "rejected" }

\* The texts of a log output that shows all of parts that are not empty.
Shown(parts) ==
  LET ne == SelectSeq(parts, LAMBDA x : x # "") IN
  { Join(ne), Join([ i \in 1..Len(ne) |-> ne[Len(ne) + 1 - i] ]) }

\* C15 as stated: when a request that ran on its own completes with an
\* Error result, its identifier, auxinfo and key outputs are empty and its
\* log output shows both the message and the log of the result.
C15_ErrorShowsMessageAndLog ==
  [][ \A r \in Req :
        (CompletesWithError(r) /\ alone[r]) =>
          LET el == Elements(kind[r]) IN
          /\ dom'[el.inchi] = ""
          /\ dom'[el.auxinfo] = ""
          /\ dom'[el.inchikey] = ""
          /\ dom'[el.logs] \in Shown(<< value[r][1].message, value[r][1].log >>) ]_vars

\* C15 as amended: when a request that ran on its own completes with an
\* Error result, its identifier, auxinfo and key outputs are empty,
\* whatever they showed before, and its log output shows the log of the
\* result and nothing else: the message of the result is not displayed.
C15_ErrorShowsLog ==
  [][ \A r \in Req :
        (CompletesWithError(r) /\ alone[r]) =>
          LET el == Elements(kind[r]) IN
          /\ pc'[r] = "done"
          /\ dom'[el.inchi] = ""
          /\ dom'[el.auxinfo] = ""
          /\ dom'[el.inchikey] = ""
          /\ dom'[el.logs] = value[r][1].log ]_vars

\* The second request, run on its own after the first one was over, has
\* got an Error result with a message and a log and is about to complete.
C15_Witness ==
  /\ pc[1] = "done"
  /\ pc[2] = "resume"
  /\ EndsInError(2)
  /\ alone[2]
  /\ value[2][1].message = SzMessage
  /\ value[2][1].log = SzLog

\* Every request that was issued is over.
AllCompleted == \A r \in Req : pc[r] \in { "new", "done", "rejected" }

\* C16: stale results never persist under overlap.  Once all requests are
\* over, if the most recently issued one ended in an Error result, the
\* identifier, auxinfo and key outputs it wrote to are empty: nothing an
\* earlier request wrote remains, in whatever order their awaits resumed.
C16_NoStaleResult ==
  (AllCompleted /\ last.error) =>
    LET el == Elements(last.kind) IN
    /\ dom[el.inchi] = ""
    /\ dom[el.auxinfo] = ""
    /\ dom[el.inchikey] = ""

\* C17: when the round trip of inchiFromMolfile or of inchikeyFromInchi
\* throws, convertMolfileToInchiAndWriteResults takes the failure up where
\* it awaited the call: it finishes normally, with the reason of the failure
\* in its log output (after what the log already held), and without calling
\* the adapter again.
C17_FailureSurfaced ==
  [][ \A r \in Req :
        (pc[r] = "resume" /\ err[r] # "none" /\ pc'[r] # "resume") =>
          /\ pc'[r] = "done"
          /\ dom'[Elements(kind[r]).logs] = Join(Append(log[r], err[r])) ]_vars

\* C18: an allocation that fails inside an adapter call (the result
\* structure of inchi_from_molfile, the payload buffer of to_json_inchi /
\* to_json_inchikey) aborts the call.  The round trip ends there with an
\* exception: the caller gets no payload, no buffer and no value, nothing
\* was allocated by the failed step, and the caller, which sees the
\* failure, does not call the adapter again.
C18_AllocationFailureAborts ==
  [][ \A r \in Req :
        /\ (pc[r] \in { "c_malloc", "c_switch" } /\ pc'[r] = "resume") =>
             /\ err'[r] # "none"
             /\ value'[r] = << >>
             /\ result'[r] = << >>
             /\ buf'[r].data = << >>
             /\ buf'[r].st # "live"
             /\ heapLive' = heapLive
             /\ c' = CIdle
        /\ (pc[r] = "resume" /\ err[r] # "none") =>
             pc'[r] \in { "resume", "done", "rejected" } ]_vars

\* The payload buffer of to_json_inchikey could not be allocated: the
\* round trip of inchikeyFromInchi has ended with the abort and without a
\* buffer, the conversion of the request having succeeded before.
C18_Witness ==
  \E r \in Req :
    /\ pc[r] = "resume"
    /\ phase[r] = 2
    /\ err[r] = AbortedMalloc
    /\ buf[r].st = "none"
    /\ value[r] = << >>
    /\ heapLive = 0

\* C19: within one request, inchikeyFromInchi is called if and only if the
\* conversion gave a result whose return_code is not -1 (0 or 1) and whose
\* inchi is not empty.  It is called for the version of the conversion and
\* after the buffer of the conversion was released, and a request calls
\* each adapter at most once: it awaits a module only on entering its
\* conversion and on entering its key derivation, each entered once, and
\* nothing follows its end.
C19_KeyDerivationOnce ==
  [][ \A r \in Req :
        /\ (pc[r] = "resume" /\ phase[r] = 1 /\ pc'[r] # "resume") =>
             /\ (phase'[r] = 2) <=>
                  /\ err[r] = "none"
                  /\ value[r] # << >>
                  /\ value[r][1].return_code # -1
                  /\ value[r][1].inchi # ""
             /\ phase'[r] = 2 =>
                  /\ pc'[r] = "awaitModule"
                  /\ ver'[r] = ver[r]
                  /\ buf[r].st = "freed"
                  /\ buf[r].frees = 1
        /\ phase'[r] # phase[r] =>
             \/ phase[r] = 0 /\ phase'[r] = 1 /\ pc[r] \in { "new", "awaitInput" }
             \/ phase[r] = 1 /\ phase'[r] = 2
             \/ phase'[r] = 0 /\ pc'[r] \in { "done", "rejected" }
        /\ (pc'[r] = "awaitModule" /\ pc[r] # "awaitModule") => phase'[r] = phase[r] + 1
        /\ (pc[r] = "awaitModule" /\ pc'[r] # "awaitModule") =>
             pc'[r] \in { "c_malloc", "c_native", "resume" }
        /\ (pc'[r] \in { "c_malloc", "c_native" } /\ pc[r] \notin { "c_malloc", "c_native" }) =>
             pc[r] = "awaitModule"
        /\ pc[r] \in { "done", "rejected" } => pc'[r] = pc[r] ]_vars

\* The key derivation of a request is inside GetINCHIKeyFromINCHI's adapter
\* after a conversion that gave a Warning result (its log is not empty).
C19_Witness ==
  \E r \in Req :
    /\ phase[r] = 2
    /\ pc[r] = "c_native"
    /\ log[r] = << SzLog >>
    /\ dom[Elements(kind[r]).inchi] = SzInChI
    /\ heapLive = 0

\* C20: when the key derivation of a request returns an Error result
\* (return_code -1 with a non-empty message), the continuation leaves the
\* key output empty and writes a log output that ends with the message of
\* the key result.
C20_KeyErrorMessageInLog ==
  [][ \A r \in Req :
        ( /\ pc[r] = "resume"
          /\ phase[r] = 2
          /\ pc'[r] # "resume"
          /\ err[r] = "none"
          /\ value[r] # << >>
          /\ value[r][1].return_code = -1
          /\ value[r][1].message # "" ) =>
          /\ pc'[r] = "done"
          /\ dom'[Elements(kind[r]).inchikey] = ""
          /\ dom'[Elements(kind[r]).logs] = Join(Append(log[r], value[r][1].message)) ]_vars

====
